---------------------------- MODULE Spec2Model ----------------------------
(***************************************************************************)
(* A model of wabbit_wappa (src/wabbit_wappa/__init__.py): the escaping    *)
(* and validation of labels, the Namespace object and its rendering, the   *)
(* example-line encoder of a VW session, the line transport over the      *)
(* echoing subprocess channel and the decoding of a response.             *)
(*                                                                         *)
(* Text is a sequence of one-character strings, so that replacing,         *)
(* joining and splitting are computed character by character.  None is    *)
(* the empty tuple and a present value x is the one-element tuple <<x>>.   *)
(* A number is a record: a Python int [t |-> "int", n |-> k], or a Python  *)
(* float with one decimal digit [t |-> "float", n |-> tenths].            *)
(*                                                                         *)
(* A Namespace object is its index in objects: the session's queue holds   *)
(* references, so a change its owner makes to a queued object shows in the *)
(* line built afterwards.  The first objects are those the caller holds;   *)
(* the ones add_namespace and make_line construct come after them.         *)
(***************************************************************************)
EXTENDS Integers, Sequences, FiniteSets

VARIABLES
    op,            \* the operation that ran last
    s,             \* escape/validate: the argument
    escaped_s,     \* escape_vw_string: the returned text
    invalid,       \* validate_vw_string: WabbitInvalidCharacter was raised
    ns,            \* the Namespace object followed (None before construction)
    cache_string,  \* the cache_string argument its constructor was given
    call,          \* the arguments of the last Namespace / VW call
    raised,        \* the last call raised WabbitInvalidCharacter
    output,        \* what the last to_string() returned
    first_output,  \* what the first to_string() of the object returned
    namespaces,    \* VW.namespaces: the session's queue, references to objects
    objects,       \* the Namespace objects that exist; an object is its index
    vw_line,       \* VW._line: the line make_line built last
    result,        \* what the last VW call returned
    error,         \* the exception the last VW call raised, or "none"
    since,         \* the namespaces queued after the previous make_line returned
    raw_output,    \* VW.raw_output
    process,       \* vw_process: running, exited by itself, or closed
    pc,            \* where the caller is: idle, or blocked in a read
    sent,          \* the line the current call wrote to the channel
    chan_in,       \* lines the channel received and has not finished handling
    echoed,        \* how many lines of chan_in the channel has echoed
    chan_out,      \* terminated lines the channel emitted, not yet read
    before,        \* vw_process.before: the text of the line read last
    before_from,   \* which emission that line was: its kind and its call
    calls,         \* how many calls that write a line were started
    consumed,      \* how many terminated lines the current call has read
    read_failed    \* a read of the session ended in TIMEOUT or EOF

escVars == <<s, escaped_s, invalid>>

nsVars == <<ns, cache_string, raised, output, first_output>>

lineVars == <<namespaces, objects, vw_line, since>>

retVars == <<result, error>>

chanVars == <<raw_output, process, pc, sent, chan_in, echoed, chan_out, before,
              before_from, calls, consumed, read_failed>>

vars == <<op, escVars, nsVars, call, lineVars, retVars, chanVars>>

-----------------------------------------------------------------------------
(* Bounds *)

MaxStrLen == 3

MaxFeatures == 2

MaxQueue == 1

MaxRawLen == 4

MaxCalls == 2

-----------------------------------------------------------------------------
(* Optional values *)

None == <<>>

Some(x) == <<x>>

IsNone(o) == o = <<>>

Val(o) == o[1]

-----------------------------------------------------------------------------
(* Text *)

RECURSIVE Concat(_)
Concat(ss) == IF ss = <<>> THEN <<>> ELSE Head(ss) \o Concat(Tail(ss))

\* sep.join(tokens)
RECURSIVE Join(_, _)
Join(sep, tokens) ==
    IF tokens = <<>> THEN <<>>
    ELSE IF Len(tokens) = 1 THEN tokens[1]
    ELSE tokens[1] \o sep \o Join(sep, Tail(tokens))

StrChars == {"a", " ", ":", "|", "\\"}

Strs(n) == UNION {[1..k -> StrChars] : k \in 0..n}

-----------------------------------------------------------------------------
(* Escaping and validation *)

\* the characters validation_regex matches
validation_regex == {" ", ":", "|"}

validation_regex_search(x) == \E i \in 1..Len(x) : x[i] \in validation_regex

\* TRUE when validate_vw_string raises WabbitInvalidCharacter
validate_vw_string(x) == validation_regex_search(x)

\* a slip in the table: the pipe is prefixed, not replaced
escape_dict_keeps_pipe(c) ==
    CASE c = " " -> <<"\\", "_">>
      [] c = ":" -> <<"\\", ";">>
      [] c = "|" -> <<"\\", "|">>

escape_dict(c) ==
    CASE c = " " -> <<"\\", "_">>
      [] c = ":" -> <<"\\", ";">>
      [] c = "|" -> <<"\\", "\\">>

escape_vw_character(c) == escape_dict(c)

\* validation_regex.sub(escape_vw_character, s): every match, left to right
RECURSIVE escape_vw_string(_)
escape_vw_string(x) ==
    IF x = <<>> THEN <<>>
    ELSE (IF Head(x) \in validation_regex
          THEN escape_vw_character(Head(x))
          ELSE <<Head(x)>>) \o escape_vw_string(Tail(x))

-----------------------------------------------------------------------------
(* Numbers and their text *)

PyInt(k) == [t |-> "int", n |-> k]

PyFloat(tenths) == [t |-> "float", n |-> tenths]

Digits == <<"0", "1", "2", "3", "4", "5", "6", "7", "8", "9">>

RECURSIVE NatStr(_)
NatStr(n) ==
    IF n < 10 THEN <<Digits[n + 1]>>
    ELSE NatStr(n \div 10) \o <<Digits[(n % 10) + 1]>>

Abs(n) == IF n < 0 THEN -n ELSE n

\* str(x) of an int, or of a float with one decimal digit ("1.0", "-0.5")
str(x) ==
    (IF x.n < 0 THEN <<"-">> ELSE <<>>)
    \o (IF x.t = "int" THEN NatStr(Abs(x.n))
        ELSE NatStr(Abs(x.n) \div 10) \o <<".">> \o <<Digits[(Abs(x.n) % 10) + 1]>>)

\* Python truth of an optional text: None and "" are false
TruthyStr(o) == ~IsNone(o) /\ Val(o) # <<>>

\* Python truth of an optional number: None, 0 and 0.0 are false
TruthyNum(o) == ~IsNone(o) /\ Val(o).n # 0

-----------------------------------------------------------------------------
(* Namespace *)

\* A feature argument: a bare label, or a (label, value) pair
Bare(label) == [shape |-> "str", label |-> label, value |-> None]

Pair(label, value) == [shape |-> "pair", label |-> label, value |-> value]

Ok(obj) == [raised |-> FALSE, obj |-> obj]

Raise(obj) == [raised |-> TRUE, obj |-> obj]

\* a slip in the policy: validation runs first, also in escape mode
Namespace_add_feature_validate_first(self, label, value) ==
    IF self.validate /\ validate_vw_string(label)
    THEN Raise(self)
    ELSE IF self.escape
    THEN Ok([self EXCEPT !.features = Append(@, <<escape_vw_string(label), value>>)])
    ELSE Ok([self EXCEPT !.features = Append(@, <<label, value>>)])

\* Namespace.add_feature: the outcome and the object afterwards
Namespace_add_feature(self, label, value) ==
    IF self.escape
    THEN Ok([self EXCEPT !.features = Append(@, <<escape_vw_string(label), value>>)])
    ELSE IF self.validate /\ validate_vw_string(label)
    THEN Raise(self)
    ELSE Ok([self EXCEPT !.features = Append(@, <<label, value>>)])

\* Namespace.add_features: features are added in order up to the first raise
RECURSIVE Namespace_add_features(_, _)
Namespace_add_features(self, features) ==
    IF features = <<>> THEN Ok(self)
    ELSE LET feature == Head(features)
             label == feature.label
             value == IF feature.shape = "str" THEN None ELSE feature.value
             r == Namespace_add_feature(self, label, value)
         IN  IF r.raised THEN r
             ELSE Namespace_add_features(r.obj, Tail(features))

\* Namespace.__init__; cache_string is accepted and not stored
Namespace_init(name, scale, features, escape, validate, cache) ==
    LET self == [name |-> name, scale |-> scale, validate |-> validate,
                 escape |-> escape, string |-> None, features |-> <<>>]
        named == IF TruthyStr(name) /\ escape
                 THEN [self EXCEPT !.name = Some(escape_vw_string(Val(name)))]
                 ELSE self
    IN  IF TruthyStr(name) /\ ~escape /\ validate /\ validate_vw_string(Val(name))
        THEN Raise(self)
        ELSE IF ~IsNone(features) /\ Val(features) # <<>>
        THEN Namespace_add_features(named, Val(features))
        ELSE Ok(named)

\* the token of one stored feature
FeatureToken(f) ==
    IF IsNone(f[2]) THEN f[1] ELSE f[1] \o <<":">> \o str(Val(f[2]))

\* the first token of a rendered namespace
NameToken(self) ==
    IF TruthyStr(self.name)
    THEN IF TruthyNum(self.scale)
         THEN Val(self.name) \o <<":">> \o str(Val(self.scale))
         ELSE Val(self.name)
    ELSE <<>>

\* Namespace.to_string; _string is read and never written
Namespace_to_string(self) ==
    IF IsNone(self.string)
    THEN Join(<<" ">>, <<NameToken(self)>>
                       \o [i \in 1..Len(self.features) |-> FeatureToken(self.features[i])]
                       \o <<<<>>>>)
    ELSE Val(self.string)

-----------------------------------------------------------------------------
(* VW: the example-line encoder *)

\* Namespace objects a caller holds, built by the constructor
NamespaceA ==
    Namespace_init(Some(<<"A">>), None, Some(<<Pair(<<"x">>, Some(PyFloat(20)))>>),
                   TRUE, TRUE, FALSE).obj

NamespaceB ==
    Namespace_init(Some(<<"b", "|">>), Some(PyFloat(15)), Some(<<Bare(<<"y", ":">>)>>),
                   TRUE, TRUE, FALSE).obj

\* the objects the caller holds references to: object i is HeldObjects[i]
HeldObjects == <<NamespaceA, NamespaceB>>

Held == Len(HeldObjects)

\* The arguments of an add_namespace call: a Namespace instance given by
\* position or as namespace=, or arguments for the Namespace constructor
Positional(ref) ==
    [pattern |-> "positional", ref |-> ref, name |-> None, scale |-> None,
     features |-> None, escape |-> TRUE, validate |-> TRUE]

Keyword(ref) ==
    [pattern |-> "keyword", ref |-> ref, name |-> None, scale |-> None,
     features |-> None, escape |-> TRUE, validate |-> TRUE]

Construct(name, scale, features, escape, validate) ==
    [pattern |-> "construct", ref |-> 0, name |-> name, scale |-> scale,
     features |-> features, escape |-> escape, validate |-> validate]

\* An element of the iterable given to add_namespaces: a Namespace instance,
\* or a text, which add_namespace hands to the constructor as the name
Obj(ref) == [ref |-> ref, name |-> None]

Named(name) == [ref |-> 0, name |-> Some(name)]

\* self.add_namespace(namespace), the call add_namespaces makes per element
ItemArg(item) ==
    IF item.ref # 0 THEN Positional(item.ref)
    ELSE Construct(item.name, None, None, TRUE, TRUE)

\* VW.add_namespace: the outcome, the queue and the objects afterwards.  A
\* given instance is queued by reference; otherwise a new object is
\* constructed, which may raise and then leaves the queue as it was
add_namespace(queue, objs, a) ==
    IF a.pattern = "positional"
    THEN [raised |-> FALSE, namespaces |-> Append(queue, a.ref), objects |-> objs]
    ELSE IF a.pattern = "keyword"
    THEN [raised |-> FALSE, namespaces |-> Append(queue, a.ref), objects |-> objs]
    ELSE LET r == Namespace_init(a.name, a.scale, a.features, a.escape,
                                 a.validate, FALSE)
         IN  IF r.raised
             THEN [raised |-> TRUE, namespaces |-> queue, objects |-> objs]
             ELSE [raised |-> FALSE,
                   namespaces |-> Append(queue, Len(objs) + 1),
                   objects |-> Append(objs, r.obj)]

\* VW.add_namespaces: the elements are queued in order up to the first raise
RECURSIVE add_namespaces(_, _, _)
add_namespaces(queue, objs, items) ==
    IF items = <<>>
    THEN [raised |-> FALSE, namespaces |-> queue, objects |-> objs]
    ELSE LET r == add_namespace(queue, objs, ItemArg(Head(items)))
         IN  IF r.raised THEN r
             ELSE add_namespaces(r.namespaces, r.objects, Tail(items))

\* make_line: Namespace(features=features) is constructed and queued
make_line_features(queue, objs, features) ==
    add_namespace(queue, objs, Construct(None, None, features, TRUE, TRUE))

\* a slip in the order: the bare features are queued before the namespaces
make_line_queue_features_first(queue, objs, features, nss) ==
    LET q1 == IF ~IsNone(features)
              THEN make_line_features(queue, objs, features)
              ELSE [raised |-> FALSE, namespaces |-> queue, objects |-> objs]
    IN  IF ~IsNone(nss)
        THEN add_namespaces(q1.namespaces, q1.objects, Val(nss))
        ELSE q1

\* make_line, first part: the namespaces argument, then the bare features
\* wrapped in one anonymous Namespace, are queued on the session
make_line_queue(queue, objs, features, nss) ==
    LET q1 == IF ~IsNone(nss)
              THEN add_namespaces(queue, objs, Val(nss))
              ELSE [raised |-> FALSE, namespaces |-> queue, objects |-> objs]
    IN  IF ~IsNone(features)
        THEN make_line_features(q1.namespaces, q1.objects, features)
        ELSE q1

\* a slip in the gating: importance and base are read without a response
make_line_tokens_ungated(response, importance, base, tag) ==
    (IF ~IsNone(response) THEN <<str(Val(response))>> ELSE <<>>)
    \o (IF ~IsNone(importance) THEN <<str(Val(importance))>> ELSE <<>>)
    \o (IF ~IsNone(base) THEN <<str(Val(base))>> ELSE <<>>)
    \o (IF ~IsNone(tag) THEN <<<<"'">> \o Val(tag)>> ELSE <<<<>>>>)

\* a slip in the spacing: the empty token is emitted before a tag as well
make_line_tokens_spaced_tag(response, importance, base, tag) ==
    (IF ~IsNone(response)
     THEN <<str(Val(response))>>
          \o (IF ~IsNone(importance)
              THEN <<str(Val(importance))>>
                   \o (IF ~IsNone(base) THEN <<str(Val(base))>> ELSE <<>>)
              ELSE <<>>)
     ELSE <<<<>>>>)
    \o (IF ~IsNone(tag) THEN <<<<"'">> \o Val(tag)>> ELSE <<>>)

\* make_line, the header tokens
make_line_tokens(response, importance, base, tag) ==
    (IF ~IsNone(response)
     THEN <<str(Val(response))>>
          \o (IF ~IsNone(importance)
              THEN <<str(Val(importance))>>
                   \o (IF ~IsNone(base) THEN <<str(Val(base))>> ELSE <<>>)
              ELSE <<>>)
     ELSE <<>>)
    \o (IF ~IsNone(tag) THEN <<<<"'">> \o Val(tag)>> ELSE <<<<>>>>)

\* make_line, the substrings: the header, then one per queued namespace,
\* each rendered as the object is at that moment
make_line_substrings(queue, objs, response, importance, base, tag) ==
    <<Join(<<" ">>, make_line_tokens(response, importance, base, tag))>>
    \o (IF queue # <<>>
        THEN [i \in 1..Len(queue) |-> Namespace_to_string(objs[queue[i]])]
        ELSE <<<<>>>>)

\* a slip at the end: the queue is not reset after its use
make_line_keeps_queue(queue, objs, response, importance, base, tag, features, nss) ==
    LET q == make_line_queue(queue, objs, features, nss)
        line == Join(<<"|">>, make_line_substrings(q.namespaces, q.objects, response,
                                                    importance, base, tag))
    IN  [line |-> line, namespaces |-> q.namespaces, objects |-> q.objects,
         rendered |-> q]

\* VW.make_line: the returned line, the session's queue afterwards and the
\* objects left (those only the old queue referred to are gone); rendered
\* is the queue, with its objects, the line was made from
make_line(queue, objs, response, importance, base, tag, features, nss) ==
    LET q == make_line_queue(queue, objs, features, nss)
        line == Join(<<"|">>, make_line_substrings(q.namespaces, q.objects, response,
                                                    importance, base, tag))
    IN  [line |-> line, namespaces |-> <<>>, objects |-> SubSeq(q.objects, 1, Held),
         rendered |-> q]

-----------------------------------------------------------------------------
(* VW: decoding a response *)

Whitespace == {" "}

DigitChars == {"0", "1", "2", "3", "4", "5", "6", "7", "8", "9"}

\* output.split(): the maximal runs of non-whitespace characters, in order
RECURSIVE split(_, _)
split(x, token) ==
    IF x = <<>> THEN (IF token = <<>> THEN <<>> ELSE <<token>>)
    ELSE IF Head(x) \in Whitespace
    THEN (IF token = <<>> THEN <<>> ELSE <<token>>) \o split(Tail(x), <<>>)
    ELSE split(Tail(x), Append(token, Head(x)))

Unsigned(token) ==
    IF token # <<>> /\ Head(token) = "-" THEN Tail(token) ELSE token

\* float(token) succeeds: an optional minus sign, digits with at most one
\* point, at least one digit (the tokens here have no exponent and no letters
\* that spell a number)
IsFloat(token) ==
    LET b == Unsigned(token)
    IN  /\ \A i \in 1..Len(b) : b[i] \in DigitChars \cup {"."}
        /\ Cardinality({i \in 1..Len(b) : b[i] = "."}) <= 1
        /\ \E i \in 1..Len(b) : b[i] \in DigitChars

DigitValue(c) == CHOOSE d \in 0..9 : Digits[d + 1] = c

RECURSIVE Mantissa(_, _)
Mantissa(b, acc) ==
    IF b = <<>> THEN acc
    ELSE IF Head(b) = "." THEN Mantissa(Tail(b), acc)
    ELSE Mantissa(Tail(b), 10 * acc + DigitValue(Head(b)))

\* m * 10^-e without trailing zeros in the fraction
RECURSIVE Normal(_, _)
Normal(m, e) ==
    IF m = 0 THEN [m |-> 0, e |-> 0]
    ELSE IF e > 0 /\ m % 10 = 0 THEN Normal(m \div 10, e - 1)
    ELSE [m |-> m, e |-> e]

\* float(token): the number m * 10^-e, the same record for equal numbers
float(token) ==
    LET b == Unsigned(token)
        point == {i \in 1..Len(b) : b[i] = "."}
        e == IF point = {} THEN 0 ELSE Len(b) - (CHOOSE i \in point : TRUE)
        v == Normal(Mantissa(b, 0), e)
    IN  IF b # token THEN [v EXCEPT !.m = -@] ELSE v

\* the tokens float() accepts, converted, in order
RECURSIVE result_list(_)
result_list(tokens) ==
    IF tokens = <<>> THEN <<>>
    ELSE (IF IsFloat(Head(tokens)) THEN <<float(Head(tokens))>> ELSE <<>>)
         \o result_list(Tail(tokens))

StrResult(text) == [kind |-> "str", text |-> text, nums |-> <<>>]

FloatResult(v) == [kind |-> "float", text |-> <<>>, nums |-> <<v>>]

ListResult(vs) == [kind |-> "list", text |-> <<>>, nums |-> vs]

\* the VW object itself, returned for chaining
SelfResult == [kind |-> "self", text |-> <<>>, nums |-> <<>>]

\* True or False
BoolResult(b) == [kind |-> IF b THEN "True" ELSE "False", text |-> <<>>, nums |-> <<>>]

\* a slip in the cases: one parsed number is returned as a list as well
result_value_always_list(out, raw) ==
    IF raw THEN StrResult(out)
    ELSE LET l == result_list(split(out, <<>>))
         IN  IF Len(l) >= 1 THEN ListResult(l) ELSE StrResult(out)

\* _get_response, after the two reads: the value returned for the text read
result_value(out, raw) ==
    IF raw THEN StrResult(out)
    ELSE LET l == result_list(split(out, <<>>))
         IN  IF Len(l) = 1 THEN FloatResult(l[1])
             ELSE IF Len(l) > 1 THEN ListResult(l)
             ELSE StrResult(out)

-----------------------------------------------------------------------------
(* VW: the transport *)

\* a slip in _get_response: the line is read once, not twice
get_response_reads_once(pos) == "idle"

\* _get_response: after the first read a second one, then the return
get_response_next(pos) == IF pos = "expect1" THEN "expect2" ELSE "idle"

\* save_model: "save_{}|".format(model_filename)
save_line(model_filename) ==
    <<"s", "a", "v", "e", "_">> \o model_filename \o <<"|">>

\* the channel takes a line that starts with save_ for a control line
IsSaveLine(text) ==
    Len(text) >= 5 /\ SubSeq(text, 1, 5) = <<"s", "a", "v", "e", "_">>

-----------------------------------------------------------------------------
(* Arguments the operations are called with *)

NameArgs == {None, Some(<<>>), Some(<<"a">>), Some(<<"b", "|">>)}

ScaleArgs == {None, Some(PyInt(0)), Some(PyInt(2)), Some(PyFloat(15))}

LabelArgs == {<<"x">>, <<"y", ":">>}

ValueArgs == {None, Some(PyInt(0)), Some(PyFloat(20))}

FeatureArg ==
    {Bare(l) : l \in LabelArgs}
    \cup {Pair(l, Some(PyFloat(20))) : l \in LabelArgs}

FeatureSeqs(n) == UNION {[1..k -> FeatureArg] : k \in 0..n}

\* what add_namespace is called with: an instance in either way, constructor
\* arguments that succeed, and constructor arguments that raise
AddNamespaceArgs ==
    {Positional(1), Keyword(2),
     Construct(Some(<<"A">>), None, Some(<<Pair(<<"x">>, Some(PyFloat(20)))>>),
               TRUE, TRUE),
     Construct(Some(<<"b", "|">>), Some(PyFloat(15)), Some(<<Bare(<<"y", ":">>)>>),
               FALSE, TRUE)}

ItemPool == {Obj(2), Named(<<"c", " ">>)}

ItemSeqs(n) == UNION {[1..k -> ItemPool] : k \in 0..n}

\* the labels an owner adds, once each, to an object it holds, possibly a
\* queued one
LateLabels == {<<"l">>}

ResponseArgs == {None, Some(PyFloat(0))}

ImportanceArgs == {None, Some(PyFloat(5))}

BaseArgs == {None, Some(PyInt(-1))}

TagArgs == {None, Some(<<"a", "b", "c">>)}

LineFeatureArgs == {None, Some(<<Bare(<<"f", " ">>)>>)}

RawChars == {"0", "1", ".", "-", "t", " "}

RawTexts(n) == UNION {[1..k -> RawChars] : k \in 0..n}

ExampleLines == {<<"|">>, <<"1", " ", "|">>}

\* what send_line is called with: example lines, and a save line
SendLineArgs == ExampleLines \cup {save_line(<<"m">>)}

ResponseTexts == {<<"1">>, <<"0", " ", "1">>, <<"t">>}

ModelFilenames == {<<"m">>}

LineNamespaceArgs == {None, Some(<<Obj(2), Named(<<"c", " ">>), Obj(1)>>)}

\* what make_line is called with: every combination of header arguments,
\* and every combination of features and namespaces
MakeLineArgs ==
    {[response |-> r, importance |-> i, base |-> b, tag |-> t,
      features |-> None, namespaces |-> None] :
        r \in ResponseArgs, i \in ImportanceArgs, b \in BaseArgs, t \in TagArgs}
    \cup {[response |-> None, importance |-> None, base |-> None, tag |-> None,
           features |-> f, namespaces |-> n] :
             f \in LineFeatureArgs, n \in LineNamespaceArgs}

\* what send_example is called with
SendExampleArgs ==
    {[response |-> Some(PyFloat(10)), importance |-> Some(PyFloat(5)), base |-> None,
      tag |-> None, features |-> Some(<<Bare(<<"f", " ">>)>>), namespaces |-> None],
     [response |-> None, importance |-> None, base |-> None,
      tag |-> None, features |-> None, namespaces |-> Some(<<Obj(1)>>)]}

\* what get_prediction is called with: a tag and namespaces
GetPredictionArgs ==
    {[tag |-> Some(<<"a", "b", "c">>), namespaces |-> Some(<<Obj(1)>>)],
     [tag |-> None, namespaces |-> None]}

-----------------------------------------------------------------------------
(* The initial state: nothing has been called *)

InitButResponse ==
    /\ op = "init"
    /\ s = <<>>
    /\ escaped_s = <<>>
    /\ invalid = FALSE
    /\ ns = None
    /\ cache_string = FALSE
    /\ call = <<>>
    /\ raised = FALSE
    /\ output = None
    /\ first_output = None
    /\ namespaces = <<>>
    /\ objects = HeldObjects
    /\ vw_line = None
    /\ result = None
    /\ error = "none"
    /\ since = <<>>
    /\ process = "running"
    /\ pc = "idle"
    /\ sent = <<>>
    /\ chan_in = <<>>
    /\ echoed = 0
    /\ chan_out = <<>>
    /\ before_from = <<>>
    /\ calls = 0
    /\ consumed = 0
    /\ read_failed = FALSE

Init ==
    /\ InitButResponse
    /\ raw_output = FALSE
    /\ before = None

\* a session whose two reads have returned and left a text in
\* vw_process.before
InitDecode ==
    /\ InitButResponse
    /\ raw_output = FALSE
    /\ before \in {Some(x) : x \in RawTexts(MaxRawLen)}

-----------------------------------------------------------------------------
(* Escaping and validation applied once to a text *)

EscapeVwString ==
    \E x \in Strs(MaxStrLen) :
        /\ op = "init"
        /\ op' = "escape_vw_string"
        /\ s' = x
        /\ escaped_s' = escape_vw_string(x)
        /\ invalid' = FALSE
        /\ UNCHANGED <<nsVars, call, lineVars, retVars, chanVars>>

ValidateVwString ==
    \E x \in Strs(MaxStrLen) :
        /\ op = "init"
        /\ op' = "validate_vw_string"
        /\ s' = x
        /\ escaped_s' = <<>>
        /\ invalid' = validate_vw_string(x)
        /\ UNCHANGED <<nsVars, call, lineVars, retVars, chanVars>>

NextEsc == EscapeVwString \/ ValidateVwString

SpecEsc == Init /\ [][NextEsc]_vars

-----------------------------------------------------------------------------
(* One Namespace object: construction, additions, rendering *)

NsNew ==
    /\ op = "init"
    /\ \E name \in NameArgs, scale \in ScaleArgs,
          features \in {None} \cup {Some(fs) : fs \in FeatureSeqs(MaxFeatures)},
          escape \in BOOLEAN, validate \in BOOLEAN, cache \in BOOLEAN :
          LET r == Namespace_init(name, scale, features, escape, validate, cache)
          IN  /\ op' = "Namespace"
              /\ call' = [name |-> name, features |-> features,
                          escape |-> escape, validate |-> validate]
              /\ raised' = r.raised
              /\ ns' = IF r.raised THEN None ELSE Some(r.obj)
              /\ cache_string' = cache
              /\ output' = None
              /\ first_output' = None
    /\ UNCHANGED <<escVars, lineVars, retVars, chanVars>>

NsAddFeature ==
    /\ ~IsNone(ns)
    /\ Len(Val(ns).features) < MaxFeatures
    /\ \E label \in LabelArgs, value \in ValueArgs :
          LET r == Namespace_add_feature(Val(ns), label, value)
          IN  /\ op' = "add_feature"
              /\ call' = [features |-> <<Pair(label, value)>>]
              /\ raised' = r.raised
              /\ ns' = Some(r.obj)
              /\ output' = None
    /\ UNCHANGED <<escVars, cache_string, first_output, lineVars, retVars, chanVars>>

NsAddFeatures ==
    /\ ~IsNone(ns)
    /\ \E features \in FeatureSeqs(MaxFeatures - Len(Val(ns).features)) :
          LET r == Namespace_add_features(Val(ns), features)
          IN  /\ op' = "add_features"
              /\ call' = [features |-> features]
              /\ raised' = r.raised
              /\ ns' = Some(r.obj)
              /\ output' = None
    /\ UNCHANGED <<escVars, cache_string, first_output, lineVars, retVars, chanVars>>

NsToString ==
    /\ ~IsNone(ns)
    /\ LET out == Namespace_to_string(Val(ns))
       IN  /\ op' = "to_string"
           /\ call' = <<>>
           /\ raised' = FALSE
           /\ output' = Some(out)
           /\ first_output' = IF IsNone(first_output) THEN Some(out) ELSE first_output
    /\ UNCHANGED <<escVars, ns, cache_string, lineVars, retVars, chanVars>>

NextNs == NsNew \/ NsAddFeature \/ NsAddFeatures \/ NsToString

SpecNs == Init /\ [][NextNs]_vars

-----------------------------------------------------------------------------
(* One VW session: queueing namespaces and building lines *)

VwAddNamespace ==
    /\ pc = "idle"
    /\ Len(namespaces) < MaxQueue
    /\ \E a \in AddNamespaceArgs :
          \E r \in {add_namespace(namespaces, objects, a)} :
              /\ op' = "add_namespace"
              /\ call' = a
              /\ namespaces' = r.namespaces
              /\ objects' = r.objects
              /\ result' = IF r.raised THEN None ELSE Some(SelfResult)
              /\ error' = IF r.raised THEN "WabbitInvalidCharacter" ELSE "none"
              /\ since' = IF r.raised THEN since
                          ELSE Append(since, IF a.pattern = "construct"
                                             THEN Len(objects) + 1 ELSE a.ref)
    /\ UNCHANGED <<escVars, nsVars, vw_line, chanVars>>

VwAddNamespaces ==
    /\ pc = "idle"
    /\ \E items \in ItemSeqs(MaxQueue - Len(namespaces)) :
          \E r \in {add_namespaces(namespaces, objects, items)} :
              /\ op' = "add_namespaces"
              /\ call' = [namespaces |-> items]
              /\ namespaces' = r.namespaces
              /\ objects' = r.objects
              /\ result' = IF r.raised THEN None ELSE Some(SelfResult)
              /\ error' = IF r.raised THEN "WabbitInvalidCharacter" ELSE "none"
              /\ since' = since \o SubSeq(r.namespaces, Len(namespaces) + 1,
                                          Len(r.namespaces))
    /\ UNCHANGED <<escVars, nsVars, vw_line, chanVars>>

\* the owner of a Namespace object adds a feature to it; the session's queue
\* may hold a reference to the object
HeldAddFeature ==
    /\ pc = "idle"
    /\ \E ref \in 1..Held, label \in LateLabels :
          /\ \A i \in 1..Len(objects[ref].features) :
                objects[ref].features[i][1] # label
          /\ \E r \in {Namespace_add_feature(objects[ref], label, None)} :
                /\ op' = "object.add_feature"
                /\ call' = [ref |-> ref, label |-> label]
                /\ objects' = [objects EXCEPT ![ref] = r.obj]
                /\ result' = None
                /\ error' = IF r.raised THEN "WabbitInvalidCharacter" ELSE "none"
    /\ UNCHANGED <<escVars, nsVars, namespaces, vw_line, since, chanVars>>

VwMakeLine ==
    /\ pc = "idle"
    /\ \E a \in MakeLineArgs :
          \E r \in {make_line(namespaces, objects, a.response, a.importance, a.base,
                              a.tag, a.features, a.namespaces)} :
              /\ op' = "make_line"
              /\ call' = [response |-> a.response, importance |-> a.importance,
                          base |-> a.base, tag |-> a.tag, features |-> a.features,
                          namespaces |-> a.namespaces, queue |-> namespaces,
                          objects |-> objects, rendered |-> r.rendered.objects,
                          since |-> since \o SubSeq(r.rendered.namespaces,
                                                    Len(namespaces) + 1,
                                                    Len(r.rendered.namespaces))]
              /\ vw_line' = Some(r.line)
              /\ namespaces' = r.namespaces
              /\ objects' = r.objects
              /\ result' = Some(StrResult(r.line))
              /\ error' = "none"
              /\ since' = <<>>
    /\ UNCHANGED <<escVars, nsVars, chanVars>>

NextLine == VwAddNamespace \/ VwAddNamespaces \/ HeldAddFeature \/ VwMakeLine

SpecLine == Init /\ [][NextLine]_vars

-----------------------------------------------------------------------------
(* Decoding the text of a response *)

VwSetRawOutputFirst ==
    /\ op = "init"
    /\ \E b \in BOOLEAN : raw_output' = b
    /\ UNCHANGED <<op, escVars, nsVars, call, lineVars, retVars, process, pc, sent,
                   chan_in, echoed, chan_out, before, before_from, calls, consumed,
                   read_failed>>

VwGetResponseValue ==
    /\ op = "init"
    /\ op' = "_get_response"
    /\ result' = Some(result_value(Val(before), raw_output))
    /\ UNCHANGED <<escVars, nsVars, call, lineVars, error, chanVars>>

NextDecode == VwSetRawOutputFirst \/ VwGetResponseValue

SpecDecode == InitDecode /\ [][NextDecode]_vars

-----------------------------------------------------------------------------
(* One VW session over the echoing channel *)

\* set_raw_output returns the flag it has just set
VwSetRawOutput ==
    /\ pc = "idle"
    /\ \E b \in BOOLEAN :
          /\ raw_output' = b
          /\ result' = Some(BoolResult(b))
    /\ op' = "set_raw_output"
    /\ error' = "none"
    /\ UNCHANGED <<escVars, nsVars, call, lineVars, process, pc, sent, chan_in,
                   echoed, chan_out, before, before_from, calls, consumed,
                   read_failed>>

\* vw_process.sendline(line), then the first read of the call begins.  On a
\* closed process the write raises OSError; otherwise the line is written to
\* the terminal, whether the process behind it is running or has exited
Sendline(line, first) ==
    /\ calls' = calls + 1
    /\ consumed' = 0
    /\ result' = None
    /\ IF process = "closed"
       THEN /\ error' = "OSError"
            /\ pc' = "idle"
            /\ UNCHANGED <<sent, chan_in>>
       ELSE /\ error' = "none"
            /\ pc' = first
            /\ sent' = line
            /\ chan_in' = Append(chan_in, [text |-> line, call |-> calls + 1])
    /\ UNCHANGED <<raw_output, process, echoed, chan_out, before, before_from,
                   read_failed>>

\* send_line: the line is written, then _get_response starts
VwSendLine ==
    /\ pc = "idle"
    /\ calls < MaxCalls
    /\ \E line \in SendLineArgs :
          /\ Sendline(line, "expect1")
          /\ call' = [line |-> line]
    /\ op' = "send_line"
    /\ UNCHANGED <<escVars, nsVars, lineVars>>

\* send_example: make_line builds the line (and resets the queue), then
\* send_line sends that line
VwSendExample ==
    /\ pc = "idle"
    /\ calls < MaxCalls
    /\ \E a \in SendExampleArgs :
          \E r \in {make_line(namespaces, objects, a.response, a.importance, a.base,
                              a.tag, a.features, a.namespaces)} :
              /\ vw_line' = Some(r.line)
              /\ namespaces' = r.namespaces
              /\ objects' = r.objects
              /\ since' = <<>>
              /\ Sendline(r.line, "expect1")
              /\ call' = a
    /\ op' = "send_example"
    /\ UNCHANGED <<escVars, nsVars>>

\* get_prediction: send_example(tag=tag, namespaces=namespaces)
VwGetPrediction ==
    /\ pc = "idle"
    /\ calls < MaxCalls
    /\ \E a \in GetPredictionArgs :
          \E r \in {make_line(namespaces, objects, None, None, None,
                              a.tag, None, a.namespaces)} :
              /\ vw_line' = Some(r.line)
              /\ namespaces' = r.namespaces
              /\ objects' = r.objects
              /\ since' = <<>>
              /\ Sendline(r.line, "expect1")
              /\ call' = a
    /\ op' = "get_prediction"
    /\ UNCHANGED <<escVars, nsVars>>

\* _get_response: one expect('\r\n') returns when a terminated line is
\* there; after the last one the text in before is decoded and returned
VwGetResponseExpect ==
    /\ pc \in {"expect1", "expect2"}
    /\ chan_out # <<>>
    /\ before' = Some(Head(chan_out).text)
    /\ before_from' = [kind |-> Head(chan_out).kind, call |-> Head(chan_out).call]
    /\ chan_out' = Tail(chan_out)
    /\ consumed' = consumed + 1
    /\ pc' = get_response_next(pc)
    /\ result' = IF get_response_next(pc) = "idle"
                 THEN Some(result_value(Head(chan_out).text, raw_output))
                 ELSE None
    /\ UNCHANGED <<op, escVars, nsVars, call, lineVars, error, raw_output, process,
                   sent, chan_in, echoed, calls, read_failed>>

\* save_model: the control line is written
VwSaveModel ==
    /\ pc = "idle"
    /\ calls < MaxCalls
    /\ \E model_filename \in ModelFilenames :
          /\ Sendline(save_line(model_filename), "save_expect")
          /\ call' = [model_filename |-> model_filename]
    /\ op' = "save_model"
    /\ UNCHANGED <<escVars, nsVars, lineVars>>

\* save_model: its one expect('\r\n'), and the text read is returned as it is
VwSaveModelExpect ==
    /\ pc = "save_expect"
    /\ chan_out # <<>>
    /\ before' = Some(Head(chan_out).text)
    /\ before_from' = [kind |-> Head(chan_out).kind, call |-> Head(chan_out).call]
    /\ chan_out' = Tail(chan_out)
    /\ consumed' = consumed + 1
    /\ pc' = "idle"
    /\ result' = Some(StrResult(Head(chan_out).text))
    /\ UNCHANGED <<op, escVars, nsVars, call, lineVars, error, raw_output, process,
                   sent, chan_in, echoed, calls, read_failed>>

\* an expect('\r\n') gives up: the process is spawned without a timeout
\* argument, so a read that finds no terminated line within the default
\* timeout raises TIMEOUT, and the call ends there
VwExpectTimeout ==
    /\ pc \in {"expect1", "expect2", "save_expect"}
    /\ chan_out = <<>>
    /\ process = "running"
    /\ pc' = "idle"
    /\ error' = "TIMEOUT"
    /\ result' = None
    /\ before' = Some(<<>>)
    /\ before_from' = <<>>
    /\ read_failed' = TRUE
    /\ UNCHANGED <<op, escVars, nsVars, call, lineVars, raw_output, process, sent,
                   chan_in, echoed, chan_out, calls, consumed>>

\* an expect('\r\n') on a process that has exited, with nothing left to read,
\* raises EOF; whether the echo of a line written last gets there first is a
\* race, and an echo that comes after the EOF stays for a later read
VwExpectEOF ==
    /\ pc \in {"expect1", "expect2", "save_expect"}
    /\ chan_out = <<>>
    /\ process = "exited"
    /\ pc' = "idle"
    /\ error' = "EOF"
    /\ result' = None
    /\ before' = Some(<<>>)
    /\ before_from' = <<>>
    /\ read_failed' = TRUE
    /\ UNCHANGED <<op, escVars, nsVars, call, lineVars, raw_output, process, sent,
                   chan_in, echoed, chan_out, calls, consumed>>

\* close: the process is closed and what it had emitted cannot be read any more
VwClose ==
    /\ pc = "idle"
    /\ op' = "close"
    /\ call' = <<>>
    /\ process' = "closed"
    /\ chan_in' = <<>>
    /\ echoed' = 0
    /\ chan_out' = <<>>
    /\ result' = None
    /\ error' = "none"
    /\ UNCHANGED <<escVars, nsVars, lineVars, raw_output, pc, sent, before,
                   before_from, calls, consumed, read_failed>>

\* the terminal echoes a written line as one terminated line.  The echo is
\* the terminal's, not the process's: a line written after the process has
\* exited can still be echoed, and then no process is left to handle it
ChannelEcho ==
    /\ process \in {"running", "exited"}
    /\ echoed < Len(chan_in)
    /\ chan_out' = Append(chan_out, [text |-> chan_in[echoed + 1].text,
                                     kind |-> "echo",
                                     call |-> chan_in[echoed + 1].call])
    /\ IF process = "running"
       THEN /\ echoed' = echoed + 1
            /\ chan_in' = chan_in
       ELSE /\ echoed' = echoed
            /\ chan_in' = SubSeq(chan_in, 1, echoed)
                          \o SubSeq(chan_in, echoed + 2, Len(chan_in))
    /\ UNCHANGED <<op, escVars, nsVars, call, lineVars, retVars, raw_output, process,
                   pc, sent, before, before_from, calls, consumed, read_failed>>

\* the process behind the channel handles the oldest echoed line: one
\* terminated response line for an example line, nothing for a save line
ChannelRespond ==
    /\ process = "running"
    /\ echoed >= 1
    /\ IF IsSaveLine(Head(chan_in).text)
       THEN chan_out' = chan_out
       ELSE \E r \in ResponseTexts :
               chan_out' = Append(chan_out, [text |-> r, kind |-> "response",
                                            call |-> Head(chan_in).call])
    /\ chan_in' = Tail(chan_in)
    /\ echoed' = echoed - 1
    /\ UNCHANGED <<op, escVars, nsVars, call, lineVars, retVars, raw_output, process,
                   pc, sent, before, before_from, calls, consumed, read_failed>>

\* the process exits by itself: the echoed lines it had not handled get no
\* response; a written line not echoed yet may still be echoed
ChannelExit ==
    /\ process = "running"
    /\ process' = "exited"
    /\ chan_in' = SubSeq(chan_in, echoed + 1, Len(chan_in))
    /\ echoed' = 0
    /\ UNCHANGED <<op, escVars, nsVars, call, lineVars, retVars, raw_output, pc,
                   sent, chan_out, before, before_from, calls, consumed,
                   read_failed>>

NextChan ==
    \/ VwSetRawOutput
    \/ VwAddNamespace
    \/ VwSendLine
    \/ VwSendExample
    \/ VwGetPrediction
    \/ VwGetResponseExpect
    \/ VwSaveModel
    \/ VwSaveModelExpect
    \/ VwExpectTimeout
    \/ VwExpectEOF
    \/ VwClose
    \/ ChannelEcho
    \/ ChannelRespond
    \/ ChannelExit

SpecChan == Init /\ [][NextChan]_vars

\* the whole session: every call, in any order
NextVW == NextLine \/ NextChan

SpecVW == Init /\ [][NextVW]_vars

-----------------------------------------------------------------------------
(* Properties of escaping and validation (SpecEsc) *)

ReservedChars == {" ", ":", "|"}

HasReserved(x) == \E i \in 1..Len(x) : x[i] \in ReservedChars

\* where the image of x[i] starts in the escaped text
Offset(x, i) == i + Cardinality({j \in 1..(i - 1) : x[j] \in ReservedChars})

\* C7: escape_vw_string(s) is s with each space replaced by backslash
\* underscore, each colon by backslash semicolon and each pipe by two
\* backslashes, every other character unchanged and in place; the result has
\* no reserved character, validate_vw_string accepts it, and it is s itself
\* when s has no reserved character.
C7_EscapeReplacesReserved ==
    op = "escape_vw_string" =>
        /\ Len(escaped_s) = Offset(s, Len(s) + 1) - 1
        /\ \A i \in 1..Len(s) :
              LET k == Offset(s, i)
              IN  CASE s[i] = " " -> escaped_s[k] = "\\" /\ escaped_s[k + 1] = "_"
                    [] s[i] = ":" -> escaped_s[k] = "\\" /\ escaped_s[k + 1] = ";"
                    [] s[i] = "|" -> escaped_s[k] = "\\" /\ escaped_s[k + 1] = "\\"
                    [] OTHER -> escaped_s[k] = s[i]
        /\ \A k \in 1..Len(escaped_s) : escaped_s[k] \notin ReservedChars
        /\ ~validate_vw_string(escaped_s)
        /\ (~HasReserved(s) => escaped_s = s)

C7_Witness ==
    /\ op = "escape_vw_string"
    /\ s = <<" ", ":", "|">>
    /\ escaped_s = <<"\\", "_", "\\", ";", "\\", "\\">>

-----------------------------------------------------------------------------
(* Properties of the Namespace object (SpecNs) *)

\* the labels of a sequence of feature arguments
AnyLabelReserved(features) ==
    \E i \in 1..Len(features) : HasReserved(features[i].label)

\* C8: constructing a Namespace, add_feature and add_features raise
\* WabbitInvalidCharacter exactly when escape is off, validate is on and the
\* name or a label being added has a space, colon or pipe; to_string never
\* raises.
C8_RaisesIffValidatingReserved ==
    /\ op = "Namespace" =>
         (raised <=>
            /\ ~call.escape
            /\ call.validate
            /\ \/ (~IsNone(call.name) /\ HasReserved(Val(call.name)))
               \/ (~IsNone(call.features) /\ AnyLabelReserved(Val(call.features))))
    /\ op \in {"add_feature", "add_features"} =>
         (raised <=>
            /\ ~Val(ns).escape
            /\ Val(ns).validate
            /\ AnyLabelReserved(call.features))
    /\ op = "to_string" => ~raised

C8_Witness ==
    /\ op = "add_features"
    /\ raised
    /\ Len(call.features) = 2
    /\ Len(Val(ns).features) = 1

\* C1: in a Namespace constructed with cache_string=True, every to_string()
\* after the first returns the text the first one returned, whatever was added
\* in between.
C1_CachedTextFrozen ==
    (cache_string /\ op = "to_string" /\ ~IsNone(first_output)) =>
        output = first_output

\* the text the rendering rule gives: the first token, a space, then every
\* feature token followed by a space
RenderedFeatures(self) ==
    Concat([i \in 1..Len(self.features) |->
              (IF IsNone(self.features[i][2])
               THEN self.features[i][1]
               ELSE self.features[i][1] \o <<":">> \o str(Val(self.features[i][2])))
              \o <<" ">>])

HasName(self) == ~IsNone(self.name) /\ Val(self.name) # <<>>

RenderedName(self) ==
    IF ~HasName(self) THEN <<>>
    ELSE IF ~IsNone(self.scale)
    THEN Val(self.name) \o <<":">> \o str(Val(self.scale))
    ELSE Val(self.name)

\* C10: with caching off, to_string returns the space-join of name:scale (the
\* name alone without a scale, nothing when unnamed), one token per feature in
\* insertion order (label:value, or the bare label), and a trailing empty
\* token, for every scale and value; the text ends with a space.
C10_ToStringFormat ==
    (op = "to_string" /\ ~cache_string) =>
        /\ Val(output) = RenderedName(Val(ns)) \o <<" ">> \o RenderedFeatures(Val(ns))
        /\ Val(output)[Len(Val(output))] = " "

\* The same format holds of every namespace whose scale is absent or not zero.
ToStringFormatUnlessZeroScale ==
    (op = "to_string" /\ (IsNone(Val(ns).scale) \/ Val(Val(ns).scale).n # 0)) =>
        /\ Val(output) = RenderedName(Val(ns)) \o <<" ">> \o RenderedFeatures(Val(ns))
        /\ Val(output)[Len(Val(output))] = " "

-----------------------------------------------------------------------------
(* Properties of the example-line encoder (SpecLine) *)

TagToken(c) == IF IsNone(c.tag) THEN <<>> ELSE <<"'">> \o Val(c.tag)

\* the header the ordering rule gives for the arguments of a call
HeaderText(c) ==
    IF IsNone(c.response) THEN TagToken(c)
    ELSE IF IsNone(c.importance)
    THEN str(Val(c.response)) \o <<" ">> \o TagToken(c)
    ELSE IF IsNone(c.base)
    THEN str(Val(c.response)) \o <<" ">> \o str(Val(c.importance))
         \o <<" ">> \o TagToken(c)
    ELSE str(Val(c.response)) \o <<" ">> \o str(Val(c.importance))
         \o <<" ">> \o str(Val(c.base)) \o <<" ">> \o TagToken(c)

\* a pipe before every namespace's text; a bare pipe when there is none
SegmentsText(nss) ==
    IF nss = <<>> THEN <<"|">>
    ELSE Concat([i \in 1..Len(nss) |-> <<"|">> \o Namespace_to_string(nss[i])])

\* the anonymous namespace that wraps bare features
Anonymous(features) ==
    [name |-> None, scale |-> None, validate |-> TRUE, escape |-> TRUE,
     string |-> None,
     features |-> [i \in 1..Len(features) |->
                     <<escape_vw_string(features[i].label), features[i].value>>]]

\* the objects a sequence of references refers to
Deref(objs, refs) == [i \in 1..Len(refs) |-> objs[refs[i]]]

\* the namespace an element of the namespaces argument stands for: the object
\* as it is at the call, or a new one with the escaped text as its name
ItemNamespace(objs, item) ==
    IF item.ref # 0 THEN objs[item.ref]
    ELSE [name |-> Some(escape_vw_string(Val(item.name))), scale |-> None,
          validate |-> TRUE, escape |-> TRUE, string |-> None, features |-> <<>>]

\* C2: the session's queue is empty right after every make_line, holds
\* otherwise exactly the namespaces queued since the previous make_line, and
\* the namespace segments of a line are those of the namespaces queued (or
\* passed) since the previous make_line and of no other.
C2_QueueSingleUse ==
    /\ namespaces = since
    /\ op = "make_line" =>
         /\ namespaces = <<>>
         /\ LET h == Len(HeaderText(call))
                line == Val(result).text
            IN  SubSeq(line, h + 1, Len(line))
                    = SegmentsText(Deref(call.rendered, call.since))

C2_Witness ==
    /\ op = "add_namespace"
    /\ vw_line = Some(<<"|", "A", " ", "x", ":", "2", ".", "0", " ", "l", " ">>)
    /\ namespaces = <<2>>
    /\ objects[2] = NamespaceB

\* C4: the header segment is the space-join of the response, the importance
\* only with a response, the base only with a response and an importance, and
\* then the apostrophe-prefixed tag or one empty token; a pipe follows it.
C4_HeaderOrder ==
    op = "make_line" =>
        LET h == HeaderText(call)
            line == Val(result).text
        IN  /\ error = "none"
            /\ Len(line) > Len(h)
            /\ SubSeq(line, 1, Len(h) + 1) = h \o <<"|">>

C4_Witness ==
    /\ op = "make_line"
    /\ ~IsNone(call.response) /\ IsNone(call.importance)
    /\ ~IsNone(call.base) /\ ~IsNone(call.tag)
    /\ SubSeq(Val(result).text, 1, 9) = <<"0", ".", "0", " ", "'", "a", "b", "c", "|">>

OnlyTagGiven ==
    /\ op = "make_line"
    /\ IsNone(call.response) /\ IsNone(call.importance) /\ IsNone(call.base)
    /\ ~IsNone(call.tag)
    /\ IsNone(call.features) /\ IsNone(call.namespaces)
    /\ call.queue = <<>>

\* C5 as stated: make_line(tag=t) with nothing queued returns a space, an
\* apostrophe, t and a pipe.
C5_TagLineLeadingSpace ==
    OnlyTagGiven => Val(result).text = <<" ", "'">> \o Val(call.tag) \o <<"|">>

\* C5 as amended: make_line(tag=t) with nothing queued returns an apostrophe,
\* t and a pipe; the tag token is the only header token and no space precedes
\* it.
C5_TagLine ==
    OnlyTagGiven => Val(result).text = <<"'">> \o Val(call.tag) \o <<"|">>

C5_Witness ==
    /\ OnlyTagGiven
    /\ result = Some(StrResult(<<"'", "a", "b", "c", "|">>))

\* C6: the line is the header followed by one pipe-led segment per namespace,
\* in the order: queued earlier, the namespaces argument in its order, one
\* anonymous namespace wrapping the features argument; with none at all the
\* line ends with a bare pipe.
C6_SegmentsInQueueOrder ==
    op = "make_line" =>
        Val(result).text =
            HeaderText(call)
            \o SegmentsText(Deref(call.objects, call.queue)
                            \o (IF IsNone(call.namespaces) THEN <<>>
                                ELSE [i \in 1..Len(Val(call.namespaces)) |->
                                        ItemNamespace(call.objects,
                                                      Val(call.namespaces)[i])])
                            \o (IF IsNone(call.features) THEN <<>>
                                ELSE <<Anonymous(Val(call.features))>>))

C6_Witness ==
    /\ op = "make_line"
    /\ call.queue = <<1>>
    /\ call.namespaces = Some(<<Obj(2), Named(<<"c", " ">>), Obj(1)>>)
    /\ ~IsNone(call.features)
    /\ IsNone(call.response) /\ IsNone(call.tag)
    /\ result = Some(StrResult(<<"|", "A", " ", "x", ":", "2", ".", "0", " ",
                       "|", "b", "\\", "\\", ":", "1", ".", "5", " ",
                            "y", "\\", ";", " ",
                       "|", "c", "\\", "_", " ",
                       "|", "A", " ", "x", ":", "2", ".", "0", " ",
                       "|", " ", "f", "\\", "_", " ">>))

-----------------------------------------------------------------------------
(* Properties of the response decoder (SpecDecode) *)

\* the tokens of a text: its maximal runs of non-space characters
TokenSpans(x) ==
    {sp \in (1..Len(x)) \X (1..Len(x)) :
        /\ sp[1] <= sp[2]
        /\ \A k \in sp[1]..sp[2] : x[k] # " "
        /\ (sp[1] = 1 \/ x[sp[1] - 1] = " ")
        /\ (sp[2] = Len(x) \/ x[sp[2] + 1] = " ")}

NumericSpans(x) == {sp \in TokenSpans(x) : IsFloat(SubSeq(x, sp[1], sp[2]))}

\* the place of a numeric token among the numeric tokens
Rank(x, sp) == Cardinality({o \in NumericSpans(x) : o[1] <= sp[1]})

\* C9: with raw_output on the text is returned unchanged; with it off the
\* result is the one number when exactly one token is numeric, the list of
\* the numeric tokens in their order when several are, and the unchanged text
\* when none is; the other tokens are dropped.
C9_DecodeByNumericTokens ==
    op = "_get_response" =>
        LET x == Val(before)
            r == Val(result)
            n == Cardinality(NumericSpans(x))
        IN  /\ raw_output => r = StrResult(x)
            /\ (~raw_output /\ n = 0) => r = StrResult(x)
            /\ (~raw_output /\ n = 1) => r.kind = "float" /\ r.text = <<>>
            /\ (~raw_output /\ n > 1) => r.kind = "list" /\ r.text = <<>>
            /\ (~raw_output /\ n >= 1) =>
                  /\ Len(r.nums) = n
                  /\ \A sp \in NumericSpans(x) :
                        r.nums[Rank(x, sp)] = float(SubSeq(x, sp[1], sp[2]))

C9_Witness ==
    /\ op = "_get_response"
    /\ ~raw_output
    /\ before = Some(<<".", "1", " ", "t">>)
    /\ result = Some(FloatResult([m |-> 1, e |-> 1]))

-----------------------------------------------------------------------------
(* Properties of the transport (SpecChan) *)

\* output the channel has emitted or still owes
PendingOutput ==
    \/ chan_out # <<>>
    \/ echoed < Len(chan_in)
    \/ /\ process = "running"
       /\ \E i \in 1..Len(chan_in) : ~IsSaveLine(chan_in[i].text)

\* C3: when send_line returns it has read two terminated lines, the second
\* being the response to the line it sent, and returns that response decoded;
\* when save_model returns it has read one line, the echo of its own save
\* line, and returns it; in both cases no channel output is left unread.
C3_ReadsOwnResponse ==
    /\ (pc = "idle" /\ op = "send_line" /\ error = "none") =>
         /\ consumed = 2
         /\ before_from = [kind |-> "response", call |-> calls]
         /\ result = Some(result_value(Val(before), raw_output))
         /\ ~PendingOutput
    /\ (pc = "idle" /\ op = "save_model" /\ error = "none") =>
         /\ consumed = 1
         /\ before_from = [kind |-> "echo", call |-> calls]
         /\ before = Some(sent)
         /\ IsSaveLine(sent)
         /\ result = Some(StrResult(sent))
         /\ ~PendingOutput

\* The same holds of every call that returns, send_example and get_prediction
\* included, as long as no read of the session has ended in TIMEOUT or EOF.
ReadsOwnResponseUntilReadFails ==
    (pc = "idle" /\ error = "none" /\ ~read_failed) =>
        /\ op \in {"send_line", "send_example", "get_prediction"} =>
             /\ consumed = 2
             /\ before_from = [kind |-> "response", call |-> calls]
             /\ result = Some(result_value(Val(before), raw_output))
             /\ ~PendingOutput
        /\ op = "save_model" =>
             /\ consumed = 1
             /\ before_from = [kind |-> "echo", call |-> calls]
             /\ before = Some(sent)
             /\ IsSaveLine(sent)
             /\ result = Some(StrResult(sent))
             /\ ~PendingOutput

\* a call returned in step after two earlier ones
InStepWitness ==
    /\ pc = "idle"
    /\ op = "send_example"
    /\ ~read_failed
    /\ calls = 2
    /\ before = Some(<<"0", " ", "1">>)
    /\ result = Some(ListResult(<<[m |-> 0, e |-> 0], [m |-> 1, e |-> 0]>>))

=============================================================================
